---- MODULE Spec2Model ----
(***************************************************************************)
(* Model of the thin-trait-objects C consumers:                            *)
(*   src/example/main.c       the plain example program                    *)
(*   src/examples/ffi/main.c  the ffi program and its CustomFileHandle     *)
(* Bytes are ASCII codes, C strings are sequences of non-zero bytes.       *)
(***************************************************************************)
EXTENDS Integers, Sequences, FiniteSets, TLC

\* ---------------------------------------------------------------- bounds
MaxArgs == 2        \* command-line arguments after argv[0]
MaxLines == 3       \* lines fgets delivers before end of input
MaxOps == 4         \* operations the direct driver applies to a custom handle
MaxGarbage == 1     \* length of the string found in uninitialised memory

\* ---------------------------------------------------------------- C strings
NULL == 0

Min(a, b) == IF a < b THEN a ELSE b

Take(s, n) == SubSeq(s, 1, Min(n, Len(s)))

\* strlen: number of bytes before the first NUL
strlen(s) ==
    IF \E i \in 1..Len(s) : s[i] = 0
    THEN (CHOOSE i \in 1..Len(s) : s[i] = 0 /\ \A j \in 1..(i - 1) : s[j] # 0) - 1
    ELSE Len(s)

\* strstr(haystack, needle) != NULL
strstr(haystack, needle) ==
    \E i \in 1..(Len(haystack) - Len(needle) + 1) :
        SubSeq(haystack, i, i + Len(needle) - 1) = needle

\* strcmp(a, b) == 0
streq(a, b) == a = b

\* "Hello, World\n"
msg == <<72, 101, 108, 108, 111, 44, 32, 87, 111, 114, 108, 100, 10>>

\* "flush"
FlushWord == <<102, 108, 117, 115, 104>>

\* the lines standard input can deliver: "ab\n", "flush\n", "0123456789abcde\n"
StdinLines ==
    { <<97, 98, 10>>,
      <<102, 108, 117, 115, 104, 10>>,
      <<48, 49, 50, 51, 52, 53, 54, 55, 56, 57, 97, 98, 99, 100, 101, 10>> }

\* what a freshly malloc'ed, never written block reads as up to its first NUL
Garbage == { [i \in 1..n |-> 63] : n \in 0..MaxGarbage }

\* the command-line words
ArgWords == {"-h", "-c", "--custom", "out.txt"}

ArgVectors == UNION { [1..n -> ArgWords] : n \in 0..MaxArgs }


\* ---------------------------------------------------------------- state
VARIABLES
    prog,       \* which program runs: "example", "ffi", or "driver"
    argv,       \* argv[1..argc-1]
    pc,         \* position of the program
    status,     \* exit status of main, NoStatus while it runs
    flag,       \* main's locals: custom, and output_file (<<>> is NULL, <<p>> points to p)
    handle,     \* the FileHandle pointer main holds, its variant, calls made on it
    custom,     \* the CustomFileHandle payload
    heap,       \* the allocator: live blocks and the next fresh block
    buf,        \* the block custom.buffer points to: its size and the string in it
    fault,      \* undefined behaviour observed so far
    emitted,    \* what was printed: the number of flushes, the last flush output,
                \* the last "[n]" prefix of a write
    io,         \* stdin/handle accounting of the copy loop, and whether a call on
                \* the handle has reported a failure
    hist,       \* history: the data written since the last flush and the sum of
                \* the lengths passed, the data at the last flush, the last call,
                \* the last custom_write: its len, its result, the bytes it appended
    ops,        \* number of lines read / driver operations applied
    call        \* a call of next_power_of_two: its argument, its local power, its
                \* position, and whether the loop body has run an odd number of times

vars == <<prog, argv, pc, status, flag, handle, custom, heap, buf, fault,
          emitted, io, hist, ops, call>>

NoStatus == -1

\* the part of the state the library and the custom behaviours work on
Machine ==
    [handle |-> handle, custom |-> custom, heap |-> heap, buf |-> buf,
     fault |-> fault, emitted |-> emitted, crashed |-> FALSE]

Commit(m) ==
    /\ handle' = m.handle
    /\ custom' = m.custom
    /\ heap' = m.heap
    /\ buf' = m.buf
    /\ fault' = m.fault
    /\ emitted' = m.emitted

NoFault == [oob |-> FALSE, nullDeref |-> FALSE, doubleFree |-> FALSE,
            useAfterDestroy |-> FALSE, nullHandle |-> FALSE, badPayload |-> FALSE]

\* ---------------------------------------------------------------- libc heap
\* malloc(n): a fresh block, or NULL when memory is exhausted
malloc(m) ==
    { [m |-> [m EXCEPT !.heap = [live |-> @.live \cup {@.next}, next |-> @.next + 1]],
       ptr |-> m.heap.next],
      [m |-> m, ptr |-> NULL] }

\* free(p): free(NULL) does nothing; freeing a block that is not live is a double free
free(m, p) ==
    IF p = NULL THEN m
    ELSE IF p \in m.heap.live THEN [m EXCEPT !.heap.live = @ \ {p}]
    ELSE [m EXCEPT !.fault.doubleFree = TRUE]

\* realloc(custom.buffer, n): on success the old block is released and the first
\* min(old size, n) bytes are kept, the rest of the new block is uninitialised;
\* on failure NULL is returned and the old block stays allocated.
\* realloc(NULL, n) is malloc(n).
realloc(m, p, n) ==
    LET grown == [m EXCEPT !.heap = [live |-> (@.live \ {p}) \cup {@.next},
                                      next |-> @.next + 1]]
        kept == Take(m.buf.str, Min(m.buf.size, n))
        ok == IF p = NULL
              THEN { [m |-> [grown EXCEPT !.buf = [size |-> n, str |-> g]],
                      ptr |-> m.heap.next] : g \in Garbage }
              ELSE IF Len(m.buf.str) < Min(m.buf.size, n)
              THEN { [m |-> [grown EXCEPT !.buf = [size |-> n, str |-> m.buf.str]],
                      ptr |-> m.heap.next] }
              ELSE { [m |-> [grown EXCEPT !.buf = [size |-> n, str |-> kept \o g]],
                      ptr |-> m.heap.next] : g \in Garbage }
    IN ok \cup { [m |-> m, ptr |-> NULL] }

\* ---------------------------------------------------------------- the library
\* (thin_trait_objects.h: the handle mechanism the two programs call into)

\* the combined handle/payload allocation, or a null result when out of memory
new_file_handle_builder(m) ==
    { [m |-> r.m, place |-> r.ptr, file_handle |-> r.ptr] : r \in malloc(m) }

\* new_file_handle_from_path(path): a handle, or NULL when the path cannot be opened
new_file_handle_from_path(m) ==
    { IF r.ptr = NULL
      THEN [r.m EXCEPT !.handle = [ptr |-> NULL, kind |-> "none", destroys |-> 0]]
      ELSE [r.m EXCEPT !.handle = [ptr |-> r.ptr, kind |-> "path", destroys |-> 0]]
      : r \in malloc(m) }

\* new_stdout_file_handle(): always succeeds
new_stdout_file_handle(m) ==
    { [r.m EXCEPT !.handle = [ptr |-> r.ptr, kind |-> "stdout", destroys |-> 0]]
      : r \in { x \in malloc(m) : x.ptr # NULL } }

\* what a write to a path/stdout handle may return: a negated error code, or the
\* number of bytes accepted, 0 <= r <= len
BuiltinWriteResults(len) == {-5} \cup { r \in 0..len : r \in {0, len - 1, len} }

\* what a flush of a path/stdout handle may return: 0 or an error code
BuiltinFlushResults == {0, 5}

\* the handle is usable: non-null and not yet destroyed
Usable(m) == m.handle.ptr # NULL /\ m.handle.ptr \in m.heap.live

\* a call on a null or destroyed handle is undefined
Misused(m) ==
    IF m.handle.ptr = NULL
    THEN [m EXCEPT !.fault.nullHandle = TRUE, !.crashed = TRUE]
    ELSE [m EXCEPT !.fault.useAfterDestroy = TRUE, !.crashed = TRUE]

\* ---------------------------------------------------------------- CustomFileHandle
\* int is 32 bits wide
IntBits == 32

Pow30 == 2^(IntBits - 2)

\* power *= 2 on a signed 32-bit int, wrapping modulo 2^32
Double32(p) ==
    IF p >= Pow30 THEN 2 * ((p - Pow30) - Pow30)
    ELSE IF p < -Pow30 THEN 2 * ((p + Pow30) + Pow30)
    ELSE 2 * p

\* the loop test with the comparison off by one
pow_continue_strict(power, value) == power <= value

\* while (power < value)
pow_continue(power, value) == power < value

RECURSIVE power_loop(_, _)
power_loop(power, value) ==
    IF pow_continue(power, value) THEN power_loop(Double32(power), value) ELSE power

\* the loop with the comparison off by one: a power of two is doubled once more
RECURSIVE strict_power_loop(_, _)
strict_power_loop(power, value) ==
    IF power <= value THEN strict_power_loop(power * 2, value) ELSE power

next_power_of_two_strict(value) == strict_power_loop(1, value)

next_power_of_two(value) == power_loop(1, value)

\* CustomFileHandle *custom = handle: the cast is only sound when the payload is
\* the one custom_file_handle has filled in (capacity is 0 only before that)
AsCustom(m) ==
    [m EXCEPT !.fault.badPayload = @ \/ m.handle.kind # "custom"
                                     \/ m.custom.capacity = 0]

\* void custom_destroy(void *handle)
custom_destroy(m) == free(AsCustom(m), m.custom.buffer)

\* strncat(custom->buffer, data, len) followed by buffer[total_bytes_written] = 0
strncat_terminate(m, data, len) ==
    IF m.custom.buffer = NULL
    THEN [m EXCEPT !.fault.nullDeref = TRUE, !.crashed = TRUE]
    ELSE LET total == m.custom.total_bytes_written
             cat == m.buf.str \o Take(data, Min(len, strlen(data)))
             str == IF Len(cat) > total THEN Take(cat, total) ELSE cat
         IN [m EXCEPT !.buf.str = str,
                      !.fault.oob = @ \/ Len(cat) >= m.buf.size \/ total >= m.buf.size]

\* int custom_write(void *handle, const char *data, int len): the possible outcomes
custom_write(m, data, len) ==
    LET total == m.custom.total_bytes_written + len
        \* total_bytes_written += len; printf("[%d] %s", total_bytes_written, data)
        counted == [AsCustom(m) EXCEPT !.custom.total_bytes_written = total,
                                       !.emitted.prefix = total]
        resized ==
            IF total >= m.custom.capacity
            THEN LET capacity == next_power_of_two(total)
                 IN { [r.m EXCEPT !.custom.capacity = capacity,
                                  !.custom.buffer = r.ptr] :
                      r \in realloc(counted, m.custom.buffer, capacity) }
            ELSE {counted}
    IN { LET after == strncat_terminate(r, data, len)
             \* the bytes of data that ended up in the buffered string
             kept == Len(after.buf.str) - Len(r.buf.str)
         IN [m |-> after, ret |-> len,
             appended |-> IF after.crashed \/ kept < 0 THEN 0 ELSE kept]
         : r \in resized }

\* "(null)"
NullText == <<40, 110, 117, 108, 108, 41>>

\* printf("[BEGIN FLUSH]%s[END FLUSH]", custom->buffer): passing NULL for %s is
\* undefined; the C library prints "(null)" or the process faults.
PrintFlush(m) ==
    IF m.custom.buffer = NULL
    THEN { [m EXCEPT !.fault.nullDeref = TRUE, !.crashed = TRUE],
           [m EXCEPT !.fault.nullDeref = TRUE,
                     !.emitted.n = @ + 1,
                     !.emitted.last = <<"[BEGIN FLUSH]", NullText, "[END FLUSH]">>] }
    ELSE { [m EXCEPT !.emitted.n = @ + 1,
                     !.emitted.last = <<"[BEGIN FLUSH]", m.buf.str, "[END FLUSH]">>] }

\* custom_flush without the reset of total_bytes_written
custom_flush_keeps_count(m) ==
    UNION {
        IF p.crashed THEN { [m |-> p, ret |-> 0] }
        ELSE LET freed == free(p, p.custom.buffer)
             IN { [m |-> [r.m EXCEPT !.custom.capacity = 16,
                                     !.custom.buffer = r.ptr,
                                     !.buf = IF r.ptr = NULL
                                             THEN [size |-> 0, str |-> <<>>]
                                             ELSE [size |-> 16, str |-> g]],
                   ret |-> 0] :
                  r \in malloc(freed), g \in Garbage }
        : p \in PrintFlush(AsCustom(m)) }

\* int custom_flush(void *handle): the possible outcomes
custom_flush(m) ==
    UNION {
        IF p.crashed THEN { [m |-> p, ret |-> 0] }
        ELSE LET freed == free(p, p.custom.buffer)
             IN { [m |-> [r.m EXCEPT !.custom = [total_bytes_written |-> 0,
                                                 capacity |-> 16,
                                                 buffer |-> r.ptr],
                                     !.buf = IF r.ptr = NULL
                                             THEN [size |-> 0, str |-> <<>>]
                                             ELSE [size |-> 16, str |-> g]],
                   ret |-> 0] :
                  r \in malloc(freed), g \in Garbage }
        : p \in PrintFlush(AsCustom(m)) }


\* custom_file_handle without the store of the terminator in buffer[0]
custom_file_handle_no_terminator(m) ==
    UNION {
        IF b.place = NULL
        THEN { [b.m EXCEPT !.fault.nullDeref = TRUE, !.crashed = TRUE] }
        ELSE UNION {
                IF r.ptr = NULL
                THEN { [r.m EXCEPT !.custom = [total_bytes_written |-> 0,
                                               capacity |-> 16,
                                               buffer |-> NULL]] }
                ELSE { [r.m EXCEPT !.custom = [total_bytes_written |-> 0,
                                               capacity |-> 16,
                                               buffer |-> r.ptr],
                                   !.buf = [size |-> 16, str |-> g],
                                   !.handle = [ptr |-> b.file_handle,
                                               kind |-> "custom",
                                               destroys |-> 0]] : g \in Garbage }
                : r \in malloc(b.m) }
        : b \in new_file_handle_builder(m) }

\* FileHandle *custom_file_handle(): the possible outcomes. The stores through
\* builder.place and custom->buffer are not guarded by a null check.
custom_file_handle(m) ==
    UNION {
        IF b.place = NULL
        THEN { [b.m EXCEPT !.fault.nullDeref = TRUE, !.crashed = TRUE] }
        ELSE { IF r.ptr = NULL
               THEN [r.m EXCEPT !.custom = [total_bytes_written |-> 0,
                                            capacity |-> 16,
                                            buffer |-> NULL],
                                !.fault.nullDeref = TRUE,
                                !.crashed = TRUE]
               ELSE [r.m EXCEPT !.custom = [total_bytes_written |-> 0,
                                            capacity |-> 16,
                                            buffer |-> r.ptr],
                                !.buf = [size |-> 16, str |-> <<>>],
                                !.handle = [ptr |-> b.file_handle,
                                            kind |-> "custom",
                                            destroys |-> 0]]
               : r \in malloc(b.m) }
        : b \in new_file_handle_builder(m) }


\* ---------------------------------------------------------------- dispatch
\* int file_handle_write(FileHandle *, const char *, int): the possible outcomes
file_handle_write(m, data, len) ==
    IF ~Usable(m) THEN { [m |-> Misused(m), ret |-> -1] }
    ELSE IF m.handle.kind = "custom" THEN custom_write(m, data, len)
    ELSE { [m |-> m, ret |-> r] : r \in BuiltinWriteResults(len) }

\* int file_handle_flush(FileHandle *): the possible outcomes
file_handle_flush(m) ==
    IF ~Usable(m) THEN { [m |-> Misused(m), ret |-> -1] }
    ELSE IF m.handle.kind = "custom" THEN custom_flush(m)
    ELSE { [m |-> m, ret |-> r] : r \in BuiltinFlushResults }

\* void file_handle_destroy(FileHandle *): the variant's destroy, then the release
\* of the combined allocation
file_handle_destroy(m) ==
    IF ~Usable(m)
    THEN [Misused(m) EXCEPT !.handle.destroys = @ + 1]
    ELSE LET released == IF m.handle.kind = "custom" THEN custom_destroy(m) ELSE m
         IN [free(released, m.handle.ptr) EXCEPT !.handle.destroys = @ + 1]

\* ---------------------------------------------------------------- history
Wrote(data, o) ==
    [hist EXCEPT !.data = @ \o data, !.sum = @ + strlen(data), !.lastOp = "write",
                 !.call = [len |-> strlen(data), ret |-> o.ret,
                           appended |-> o.appended]]

Flushed ==
    [hist EXCEPT !.data = <<>>, !.sum = 0, !.atFlush = hist.data, !.lastOp = "flush"]

Did(op) == [hist EXCEPT !.lastOp = op]

\* ---------------------------------------------------------------- direct driver
\* a caller that builds a custom handle and applies any sequence of writes and
\* flushes to it, then destroys it
\* the data it writes: the lines, the greeting, "abc\n", "ab" and the empty string
DriverData == StdinLines \cup {msg, <<97, 98, 99, 10>>, <<97, 98>>, <<>>}

\* no call of next_power_of_two is being followed
NoCall == [value |-> 0, power |-> 1, pc |-> "idle", odd |-> FALSE]

InitCommon ==
    /\ status = NoStatus
    /\ flag = [custom |-> FALSE, output_file |-> <<>>]
    /\ handle = [ptr |-> NULL, kind |-> "none", destroys |-> 0]
    /\ custom = [total_bytes_written |-> 0, capacity |-> 0, buffer |-> NULL]
    /\ heap = [live |-> {}, next |-> 1]
    /\ buf = [size |-> 0, str |-> <<>>]
    /\ fault = NoFault
    /\ emitted = [n |-> 0, last |-> <<>>, prefix |-> 0]
    /\ io = [read |-> 0, accepted |-> 0, line |-> <<>>, failed |-> FALSE]
    /\ hist = [data |-> <<>>, sum |-> 0, atFlush |-> <<>>, lastOp |-> "none",
               call |-> [len |-> 0, ret |-> 0, appended |-> 0]]
    /\ ops = 0

InitDriver ==
    /\ prog = "driver"
    /\ argv = <<>>
    /\ pc = "new"
    /\ call = NoCall
    /\ InitCommon

Driver_Construct ==
    /\ prog = "driver" /\ pc = "new"
    /\ \E m \in custom_file_handle(Machine) :
        /\ Commit(m)
        /\ pc' = IF m.crashed THEN "crashed" ELSE "use"
    /\ hist' = Did("construct")
    /\ UNCHANGED <<call, prog, argv, status, flag, io, ops>>

Driver_Write ==
    /\ prog = "driver" /\ pc = "use" /\ ops < MaxOps
    /\ \E data \in DriverData :
        \E o \in file_handle_write(Machine, data, strlen(data)) :
            /\ Commit(o.m)
            /\ pc' = IF o.m.crashed THEN "crashed" ELSE "use"
            /\ hist' = Wrote(data, o)
    /\ ops' = ops + 1
    /\ UNCHANGED <<call, prog, argv, status, flag, io>>

Driver_Flush ==
    /\ prog = "driver" /\ pc = "use" /\ ops < MaxOps
    /\ \E o \in file_handle_flush(Machine) :
        /\ Commit(o.m)
        /\ pc' = IF o.m.crashed THEN "crashed" ELSE "use"
    /\ hist' = Flushed
    /\ ops' = ops + 1
    /\ UNCHANGED <<call, prog, argv, status, flag, io>>

Driver_Destroy ==
    /\ prog = "driver" /\ pc = "use"
    /\ Commit(file_handle_destroy(Machine))
    /\ pc' = "done"
    /\ hist' = Did("destroy")
    /\ UNCHANGED <<call, prog, argv, status, flag, io, ops>>

NextDriver == Driver_Construct \/ Driver_Write \/ Driver_Flush \/ Driver_Destroy

SpecDriver == InitDriver /\ [][NextDriver]_vars


\* ---------------------------------------------------------------- next_power_of_two
\* the function run statement by statement on arguments from the whole int range:
\* the small ones, and the ones around 2^30 and at both ends of the range
MaxValue == 40

PowInputs ==
    (-2..MaxValue)
        \cup { Pow30 - 1, Pow30, Pow30 + 1, Pow30 + (Pow30 - 1), (-Pow30) - Pow30 }
        \cup { 2^k + d : k \in 27..29, d \in {-1, 0, 1} }

InitPow ==
    /\ prog = "pow"
    /\ argv = <<>>
    /\ pc = "pow"
    /\ InitCommon
    /\ call \in { [value |-> value, power |-> 1, pc |-> "loop", odd |-> FALSE] :
                   value \in PowInputs }

\* power *= 2
Pow_Double ==
    /\ prog = "pow" /\ call.pc = "loop"
    /\ pow_continue(call.power, call.value)
    /\ call' = [call EXCEPT !.power = Double32(call.power), !.odd = ~@]
    /\ UNCHANGED <<prog, argv, pc, status, flag, handle, custom, heap, buf, fault,
                   emitted, io, hist, ops>>

\* return power
Pow_Return ==
    /\ prog = "pow" /\ call.pc = "loop"
    /\ ~pow_continue(call.power, call.value)
    /\ call' = [call EXCEPT !.pc = "done"]
    /\ UNCHANGED <<prog, argv, pc, status, flag, handle, custom, heap, buf, fault,
                   emitted, io, hist, ops>>

NextPow == Pow_Double \/ Pow_Return

SpecPow == InitPow /\ [][NextPow]_vars

\* the function is not preempted for ever: a statement that can run does run
SpecPowFair == SpecPow /\ WF_vars(NextPow)

\* ---------------------------------------------------------------- the programs
Init ==
    /\ prog \in {"example", "ffi"}
    /\ argv \in ArgVectors
    /\ pc = "parse"
    /\ call = NoCall
    /\ InitCommon

\* strcmp(argv[i], "-h") == 0 || strcmp(argv[i], "--help") == 0
IsHelp(arg) == streq(arg, "-h") \/ streq(arg, "--help")

\* the copy loop's accounting of one line handed to file_handle_write
Copied(line, ret) ==
    [read |-> io.read + strlen(line),
     accepted |-> io.accepted + (IF ret > 0 THEN ret ELSE 0),
     line |-> line,
     failed |-> io.failed \/ ret < 0]

\* the result of the greeting write: anything but the full length is a failure
Greeted(ret) == [io EXCEPT !.failed = @ \/ ret # strlen(msg)]

\* the result of a file_handle_flush: anything but 0 is a failure
FlushReturned(ret) == [io EXCEPT !.failed = @ \/ ret # 0]

WroteIfCustom(data, o) ==
    IF handle.kind = "custom" THEN Wrote(data, o) ELSE Did("write")

\* ------------------------------------------------ src/example/main.c
Ex_ParseArgs ==
    /\ prog = "example" /\ pc = "parse"
    /\ IF \E i \in 1..Len(argv) : IsHelp(argv[i])
       THEN /\ status' = 0
            /\ pc' = "exited"
            /\ flag' = flag
       ELSE /\ flag' = [flag EXCEPT !.output_file =
                            IF Len(argv) + 1 > 1 THEN <<argv[1]>> ELSE <<>>]
            /\ pc' = "construct"
            /\ status' = status
    /\ UNCHANGED <<call, prog, argv, handle, custom, heap, buf, fault, emitted, io, hist, ops>>

\* the construction without the test of the handle against NULL
Ex_Construct_NoNullCheck ==
    /\ prog = "example" /\ pc = "construct"
    /\ \E m \in (IF flag.output_file # <<>>
                 THEN new_file_handle_from_path(Machine)
                 ELSE new_stdout_file_handle(Machine)) :
        /\ Commit(m)
        /\ status' = status /\ pc' = "greet"
    /\ hist' = Did("construct")
    /\ UNCHANGED <<call, prog, argv, flag, io, ops>>

Ex_Construct ==
    /\ prog = "example" /\ pc = "construct"
    /\ \E m \in (IF flag.output_file # <<>>
                 THEN new_file_handle_from_path(Machine)
                 ELSE new_stdout_file_handle(Machine)) :
        /\ Commit(m)
        /\ IF m.handle.ptr = NULL
           THEN status' = 1 /\ pc' = "exited"
           ELSE status' = status /\ pc' = "greet"
    /\ hist' = Did("construct")
    /\ UNCHANGED <<call, prog, argv, flag, io, ops>>

\* the greeting step without the return after the destroy of the failure path
Ex_Greeting_NoReturn ==
    /\ prog = "example" /\ pc = "greet"
    /\ \E o \in file_handle_write(Machine, msg, strlen(msg)) :
        /\ io' = Greeted(o.ret)
        /\ IF o.m.crashed
           THEN Commit(o.m) /\ pc' = "crashed" /\ status' = status /\ hist' = Did("write")
           ELSE IF o.ret # strlen(msg)
           THEN /\ Commit(file_handle_destroy(o.m))
                /\ status' = status
                /\ pc' = "loop"
                /\ hist' = Did("destroy")
           ELSE /\ Commit(o.m)
                /\ status' = status
                /\ pc' = "loop"
                /\ hist' = WroteIfCustom(msg, o)
    /\ UNCHANGED <<call, prog, argv, flag, ops>>

Ex_Greeting ==
    /\ prog = "example" /\ pc = "greet"
    /\ \E o \in file_handle_write(Machine, msg, strlen(msg)) :
        /\ io' = Greeted(o.ret)
        /\ IF o.m.crashed
           THEN Commit(o.m) /\ pc' = "crashed" /\ status' = status /\ hist' = Did("write")
           ELSE IF o.ret # strlen(msg)
           THEN /\ Commit(file_handle_destroy(o.m))
                /\ status' = 1
                /\ pc' = "exited"
                /\ hist' = Did("destroy")
           ELSE /\ Commit(o.m)
                /\ status' = status
                /\ pc' = "loop"
                /\ hist' = WroteIfCustom(msg, o)
    /\ UNCHANGED <<call, prog, argv, flag, ops>>

\* the copy step without the destroy on the negative-write path
Ex_CopyLine_NoDestroy ==
    /\ prog = "example" /\ pc = "loop" /\ ops < MaxLines
    /\ \E line \in StdinLines :
        \E o \in file_handle_write(Machine, line, strlen(line)) :
            /\ io' = Copied(line, o.ret)
            /\ IF o.m.crashed
               THEN Commit(o.m) /\ pc' = "crashed" /\ status' = status
                    /\ hist' = Did("write")
               ELSE IF o.ret < 0
               THEN /\ Commit(o.m)
                    /\ status' = 1
                    /\ pc' = "exited"
                    /\ hist' = Did("write")
               ELSE /\ Commit(o.m)
                    /\ status' = status
                    /\ pc' = "loop"
                    /\ hist' = WroteIfCustom(line, o)
    /\ ops' = ops + 1
    /\ UNCHANGED <<call, prog, argv, flag>>

Ex_CopyLine ==
    /\ prog = "example" /\ pc = "loop" /\ ops < MaxLines
    /\ \E line \in StdinLines :
        \E o \in file_handle_write(Machine, line, strlen(line)) :
            /\ io' = Copied(line, o.ret)
            /\ IF o.m.crashed
               THEN Commit(o.m) /\ pc' = "crashed" /\ status' = status
                    /\ hist' = Did("write")
               ELSE IF o.ret < 0
               THEN /\ Commit(file_handle_destroy(o.m))
                    /\ status' = 1
                    /\ pc' = "exited"
                    /\ hist' = Did("destroy")
               ELSE /\ Commit(o.m)
                    /\ status' = status
                    /\ pc' = "loop"
                    /\ hist' = WroteIfCustom(line, o)
    /\ ops' = ops + 1
    /\ UNCHANGED <<call, prog, argv, flag>>

Ex_EndOfInput ==
    /\ prog = "example" /\ pc = "loop"
    /\ LET m == file_handle_destroy(Machine)
       IN /\ Commit(m)
          /\ IF m.crashed
             THEN pc' = "crashed" /\ status' = status
             ELSE pc' = "exited" /\ status' = 0
    /\ hist' = Did("destroy")
    /\ UNCHANGED <<call, prog, argv, flag, io, ops>>

\* ------------------------------------------------ src/examples/ffi/main.c
\* strcmp(argv[i], "-c") == 0 || strcmp(argv[i], "--custom")
SetsCustom(arg) == streq(arg, "-c") \/ ~streq(arg, "--custom")

Ffi_ParseArgs ==
    /\ prog = "ffi" /\ pc = "parse"
    /\ IF \E i \in 1..Len(argv) : IsHelp(argv[i])
       THEN /\ status' = 0
            /\ pc' = "exited"
            /\ flag' = flag
       ELSE /\ flag' = [custom |-> \E i \in 1..Len(argv) : SetsCustom(argv[i]),
                        output_file |-> IF Len(argv) + 1 > 1 THEN <<argv[1]>> ELSE <<>>]
            /\ pc' = "construct"
            /\ status' = status
    /\ UNCHANGED <<call, prog, argv, handle, custom, heap, buf, fault, emitted, io, hist, ops>>

Ffi_Construct ==
    /\ prog = "ffi" /\ pc = "construct"
    /\ \E m \in (IF flag.custom THEN custom_file_handle(Machine)
                 ELSE IF flag.output_file # <<>>
                 THEN new_file_handle_from_path(Machine)
                 ELSE new_stdout_file_handle(Machine)) :
        /\ Commit(m)
        /\ IF m.crashed
           THEN status' = status /\ pc' = "crashed"
           ELSE IF m.handle.ptr = NULL
           THEN status' = 1 /\ pc' = "exited"
           ELSE status' = status /\ pc' = "greet"
    /\ hist' = Did("construct")
    /\ UNCHANGED <<call, prog, argv, flag, io, ops>>

Ffi_Greeting ==
    /\ prog = "ffi" /\ pc = "greet"
    /\ \E o \in file_handle_write(Machine, msg, strlen(msg)) :
        /\ io' = Greeted(o.ret)
        /\ IF o.m.crashed
           THEN Commit(o.m) /\ pc' = "crashed" /\ status' = status /\ hist' = Did("write")
           ELSE IF o.ret # strlen(msg)
           THEN /\ Commit(file_handle_destroy(o.m))
                /\ status' = 1
                /\ pc' = "exited"
                /\ hist' = Did("destroy")
           ELSE /\ Commit(o.m)
                /\ status' = status
                /\ pc' = "loop"
                /\ hist' = WroteIfCustom(msg, o)
    /\ UNCHANGED <<call, prog, argv, flag, ops>>

Ffi_CopyLine ==
    /\ prog = "ffi" /\ pc = "loop" /\ ops < MaxLines
    /\ \E line \in StdinLines :
        \E o \in file_handle_write(Machine, line, strlen(line)) :
            /\ io' = Copied(line, o.ret)
            /\ IF o.m.crashed
               THEN Commit(o.m) /\ pc' = "crashed" /\ status' = status
                    /\ hist' = Did("write")
               ELSE IF o.ret < 0
               THEN /\ Commit(file_handle_destroy(o.m))
                    /\ status' = 1
                    /\ pc' = "exited"
                    /\ hist' = Did("destroy")
               ELSE /\ Commit(o.m)
                    /\ status' = status
                    /\ pc' = IF strstr(line, FlushWord) THEN "flush" ELSE "loop"
                    /\ hist' = WroteIfCustom(line, o)
    /\ ops' = ops + 1
    /\ UNCHANGED <<call, prog, argv, flag>>

\* the flush step that ignores the result of file_handle_flush
Ffi_Flush_IgnoresResult ==
    /\ prog = "ffi" /\ pc = "flush"
    /\ \E o \in file_handle_flush(Machine) :
        /\ Commit(o.m)
        /\ io' = FlushReturned(o.ret)
        /\ IF o.m.crashed
           THEN pc' = "crashed" /\ status' = status
           ELSE pc' = "loop" /\ status' = status
    /\ hist' = IF handle.kind = "custom" THEN Flushed ELSE Did("flush")
    /\ UNCHANGED <<call, prog, argv, flag, ops>>

Ffi_Flush ==
    /\ prog = "ffi" /\ pc = "flush"
    /\ \E o \in file_handle_flush(Machine) :
        /\ Commit(o.m)
        /\ io' = FlushReturned(o.ret)
        /\ IF o.m.crashed
           THEN pc' = "crashed" /\ status' = status
           ELSE IF o.ret # 0
           THEN pc' = "exited" /\ status' = o.ret
           ELSE pc' = "loop" /\ status' = status
    /\ hist' = IF handle.kind = "custom" THEN Flushed ELSE Did("flush")
    /\ UNCHANGED <<call, prog, argv, flag, ops>>

Ffi_EndOfInput ==
    /\ prog = "ffi" /\ pc = "loop"
    /\ LET m == file_handle_destroy(Machine)
       IN /\ Commit(m)
          /\ IF m.crashed
             THEN pc' = "crashed" /\ status' = status
             ELSE pc' = "exited" /\ status' = 0
    /\ hist' = Did("destroy")
    /\ UNCHANGED <<call, prog, argv, flag, io, ops>>

Next ==
    \/ Ex_ParseArgs \/ Ex_Construct \/ Ex_Greeting \/ Ex_CopyLine \/ Ex_EndOfInput
    \/ Ffi_ParseArgs \/ Ffi_Construct \/ Ffi_Greeting \/ Ffi_CopyLine \/ Ffi_Flush
    \/ Ffi_EndOfInput

Spec == Init /\ [][Next]_vars


\* ================================================================ properties

\* C1: in the ffi program, whenever main returns after having obtained a non-null
\* handle, file_handle_destroy has been called on that handle exactly once,
\* whatever the writes and flushes returned.
C1_DestroyedOnceOnReturn ==
    (prog = "ffi" /\ pc = "exited" /\ handle.ptr # NULL) => handle.destroys = 1

\* C2: after every custom_write the accumulated size is strictly below the
\* capacity, so the bytes and the terminator at index total_bytes_written lie
\* inside the buffer.
C2_SizeBelowCapacity ==
    (handle.kind = "custom" /\ hist.lastOp = "write" /\ pc # "crashed")
        => custom.total_bytes_written < custom.capacity

\* C3: after custom_flush returns the payload is reset: total_bytes_written = 0,
\* capacity = 16 and the buffered content is the empty string.
C3_FlushResets ==
    (handle.kind = "custom" /\ hist.lastOp = "flush" /\ pc # "crashed")
        => /\ custom.total_bytes_written = 0
           /\ custom.capacity = 16
           /\ buf.str = <<>>

\* C4: every custom_flush prints "[BEGIN FLUSH]", then exactly the data of the
\* custom_write calls since the previous flush in call order, then "[END FLUSH]".
C4_FlushEmitsWrites ==
    (handle.kind = "custom" /\ emitted.n > 0)
        => emitted.last = <<"[BEGIN FLUSH]", hist.atFlush, "[END FLUSH]">>

\* C5: when the builder's allocation or the payload's malloc(16) fails,
\* custom_file_handle dereferences no null pointer and main sees a null handle.
C5_NoNullDereference ==
    (prog = "ffi" /\ hist.lastOp = "construct")
        => /\ ~fault.nullDeref
           /\ pc # "crashed"

\* C6: a program that exits with status 0 has had every byte it read from stdin
\* accepted by the handle (a partial write is retried or aborts the program).
C6_ExitZeroAllAccepted ==
    (pc = "exited" /\ status = 0) => io.accepted = io.read

\* C7: after every custom_write, capacity is max(16, smallest power of two >=
\* total_bytes_written), and a write never lowers the capacity.
PowersOfTwo == { 2^k : k \in 0..(IntBits - 2) }

SmallestPowerAtLeast(v) ==
    CHOOSE q \in PowersOfTwo : q >= v /\ \A r \in PowersOfTwo : r >= v => q <= r

C7_AfterWrite ==
    (handle.kind = "custom" /\ hist.lastOp = "write")
        => custom.capacity =
             (IF SmallestPowerAtLeast(custom.total_bytes_written) > 16
              THEN SmallestPowerAtLeast(custom.total_bytes_written)
              ELSE 16)

C7_WriteKeepsCapacity ==
    (handle.kind = "custom" /\ hist'.lastOp = "write")
        => custom'.capacity >= custom.capacity

C7_CapacityIsNextPower == []C7_AfterWrite /\ [][C7_WriteKeepsCapacity]_vars

C7_Witness ==
    /\ hist.lastOp = "write"
    /\ custom.total_bytes_written = 20
    /\ custom.capacity = 32

\* C8: between construction and destroy the payload owns exactly one live buffer
\* and nothing is freed twice; after file_handle_destroy nothing remains live.
C8_OneLiveBuffer ==
    /\ ~fault.doubleFree
    /\ (handle.kind = "custom" /\ pc # "crashed"
            /\ hist.lastOp \in {"construct", "write", "flush"})
        => /\ custom.buffer # NULL
           /\ heap.live = {handle.ptr, custom.buffer}
    /\ (handle.kind = "custom" /\ hist.lastOp = "destroy") => heap.live = {}

\* C9: in both programs nothing is invoked on a handle after file_handle_destroy
\* was called on it: the destroy is the last call before main returns.
C9_NoUseAfterDestroy ==
    /\ ~fault.useAfterDestroy
    /\ ~fault.doubleFree
    /\ handle.destroys <= 1
    /\ handle.destroys = 1 => pc = "exited"

C9_Witness ==
    /\ handle.destroys = 1
    /\ pc = "exited"
    /\ status = 1
    /\ io.read > 0

\* C10: in the example program, whenever main returns after having obtained a
\* non-null handle, file_handle_destroy has been called on it exactly once.
C10_ExampleDestroysOnce ==
    (prog = "example" /\ pc = "exited" /\ handle.ptr # NULL) => handle.destroys = 1

C10_Witness ==
    /\ prog = "example"
    /\ pc = "exited"
    /\ status = 1
    /\ io.read > 0
    /\ handle.destroys = 1

\* C11: when the constructor returns a null handle main exits with status 1 and
\* has invoked nothing on it; no write, flush or destroy is ever dispatched on a
\* null handle.
C11_NullHandleNeverUsed ==
    /\ ~fault.nullHandle
    /\ (handle.ptr = NULL /\ hist.lastOp = "construct" /\ pc # "crashed")
        => (pc = "exited" /\ status = 1)
    /\ handle.ptr = NULL => hist.lastOp \in {"none", "construct"}

C11_Witness ==
    /\ handle.ptr = NULL
    /\ hist.lastOp = "construct"
    /\ pc = "exited"
    /\ status = 1

C13_ReturnIsBytesAppended ==
    (handle.kind = "custom" /\ hist.lastOp = "write" /\ pc # "crashed")
        => /\ 0 <= hist.call.ret
           /\ hist.call.ret <= hist.call.len
           /\ hist.call.ret = hist.call.appended

\* C14: the custom behaviours only ever run on the payload of a custom handle,
\* which custom_file_handle has fully initialised (counter 0, capacity 16, a live
\* 16-byte buffer holding the empty string) before it returned the handle.
C14_CustomPayloadInitialised ==
    /\ ~fault.badPayload
    /\ (handle.kind = "custom" /\ hist.lastOp = "construct")
        => /\ custom.total_bytes_written = 0
           /\ custom.capacity = 16
           /\ custom.buffer \in heap.live
           /\ handle.ptr \in heap.live
           /\ buf = [size |-> 16, str |-> <<>>]
    /\ (emitted.n > 0 \/ emitted.prefix > 0) => handle.kind = "custom"

C14_Witness ==
    /\ prog = "ffi"
    /\ handle.kind = "custom"
    /\ emitted.prefix > 0
    /\ emitted.n > 0
    /\ handle.destroys = 1

\* C15: the ffi program builds the custom variant exactly when "-c" or "--custom"
\* is among the arguments; otherwise the path variant when there is an argument
\* and the stdout variant when there is none.
C15_VariantFollowsFlags ==
    (prog = "ffi" /\ handle.ptr # NULL)
        => LET asked == \E i \in 1..Len(argv) : argv[i] \in {"-c", "--custom"}
           IN handle.kind = (IF asked THEN "custom"
                             ELSE IF Len(argv) > 0 THEN "path" ELSE "stdout")

\* C16: once a write returned a negative value, the greeting write anything but
\* its full length, or (ffi) a flush a non-zero value, main has returned a
\* non-zero status and invokes nothing more; a status of 0 means none occurred.
C16_FailureStopsWithNonZero ==
    /\ io.failed => (pc = "exited" /\ status # 0 /\ status # NoStatus)
    /\ (pc = "exited" /\ status = 0) => ~io.failed

C16_Witness ==
    /\ prog = "ffi"
    /\ io.failed
    /\ hist.lastOp = "flush"
    /\ pc = "exited"
    /\ status = 5

\* C17: next_power_of_two(value) returns the smallest power of two >= value for
\* 1 <= value <= 2^30, and 1 for every value <= 1.
C17_SmallestPowerOfTwo ==
    call.pc = "done"
        => /\ call.value <= 1 => call.power = 1
           /\ (1 <= call.value /\ call.value <= Pow30)
                => call.power = SmallestPowerAtLeast(call.value)

C17_Witness ==
    /\ call.pc = "done"
    /\ call.value = Pow30 - 1
    /\ call.power = Pow30

\* C18: next_power_of_two terminates for every 32-bit int argument, the doubling
\* being arithmetic modulo 2^32.
C18_Terminates == <>(call.pc = "done")

====
